---------------------------- MODULE Spec2Model ----------------------------
(***************************************************************************)
(* KodBro client: the terminal transport layer (TerminalService) and the   *)
(* agent event-stream reader (AgentService.streamSessionLogs).             *)
(*                                                                         *)
(* Text is a sequence of characters.  A fixed message of the program is a  *)
(* one-element sequence holding the message, so that template strings are  *)
(* concatenations and the empty string is <<>>.                            *)
(***************************************************************************)
EXTENDS Integers, Sequences, FiniteSets, TLC

\* ------------------------------------------------------------------ bounds
\* Longest walk of history navigation that is recorded.
MaxNav == 8
\* Most commands executed in one run.
MaxCommands == 3
\* Most characters received on the interactive connection in one run.
MaxInbound == 5
\* Longest inbound chunk.
MaxChunk == 2
\* Most lines kept in the log before it has to be cleared.
MaxLog == 3
\* Most requests the agent page awaits at once, for each of its calls.
MaxInflight == 1
\* Most one-shot requests of the terminal in flight at once.
MaxRequests == 2
\* Most createApp requests the creation page awaits at once.
MaxSubmits == 1
\* Most getStatus requests the creation page awaits at once.
MaxChecks == 2
\* Most connections created in one run.
MaxSockets == 2
\* Most frames in the body of one event stream.
MaxFrames == 3
\* Most messages in the conversation log of the agent page.
MaxMessages == 4

\* ------------------------------------------------------------------- text
LF == "\n"
CR == "\r"
SP == " "

Max(a, b) == IF a >= b THEN a ELSE b
Min(a, b) == IF a <= b THEN a ELSE b

\* The texts of at most n characters over the alphabet A.
RECURSIVE TextsUpTo(_, _)
TextsUpTo(A, n) ==
  IF n = 0 THEN {<<>>}
  ELSE LET shorter == TextsUpTo(A, n - 1)
       IN  shorter \cup {Append(t, c) : t \in shorter, c \in A}

\* String.prototype.split on the line terminator: the pieces between the
\* terminators; a text without terminator is its own single piece.
RECURSIVE Split(_)
Split(s) ==
  IF \A i \in 1..Len(s) : s[i] # LF THEN <<s>>
  ELSE LET i == CHOOSE k \in 1..Len(s) :
                  s[k] = LF /\ \A j \in 1..(k - 1) : s[j] # LF
       IN  <<SubSeq(s, 1, i - 1)>> \o Split(SubSeq(s, i + 1, Len(s)))

Last(q) == q[Len(q)]
Front(q) == SubSeq(q, 1, Len(q) - 1)

\* String.prototype.endsWith for a one-character suffix.
EndsWith(s, c) == Len(s) > 0 /\ s[Len(s)] = c

\* String.prototype.replace(/\r$/, '').
StripCR(s) == IF EndsWith(s, CR) THEN Front(s) ELSE s

\* String.prototype.trim.
RECURSIVE TrimLeft(_)
TrimLeft(s) == IF Len(s) > 0 /\ Head(s) = SP THEN TrimLeft(Tail(s)) ELSE s
RECURSIVE TrimRight(_)
TrimRight(s) == IF EndsWith(s, SP) THEN TrimRight(Front(s)) ELSE s
Trim(s) == TrimRight(TrimLeft(s))

\* String.prototype.replace(/\/+$/, '').
RECURSIVE StripSlashes(_)
StripSlashes(s) == IF EndsWith(s, "/") THEN StripSlashes(Front(s)) ELSE s

\* ------------------------------------------------- TerminalService: state
VARIABLES
  output,          \* the log: a sequence of [type, text]
  commandHistory,  \* the executed commands, oldest first
  historyIndex,    \* the history cursor (0-based, as in the source)
  ws,              \* the current connection: 0 is null, else a socket id
  serverUrl,       \* _serverUrl
  connected,       \* _connected
  isRemoteApi,     \* _isRemoteApi
  outputBuffer,    \* the partial-line buffer
  sock,            \* readyState of every WebSocket created so far
  sent,            \* what ws.send transmitted on every socket
  inflight,        \* the fetch requests of runViaRemoteApi not yet settled
  \* history of the run, read by the properties only
  last,            \* the handler that ran last, with its input and result
  navLog,          \* getHistory calls since the last executed command
  inbound,         \* text received since the connection opened
  flushed,         \* lines flushOutput appended since the connection opened
  received,        \* text received on every socket
  intent           \* what the user asked for last: the transport kind of the
                   \* last connect(), "disconnected" after disconnect()

tvars == <<output, commandHistory, historyIndex, ws, serverUrl, connected,
           isRemoteApi, outputBuffer, sock, sent, inflight,
           last, navLog, inbound, flushed, received, intent>>

\* The event stream of AgentService.streamSessionLogs.
VARIABLES
  frames,       \* the frames the server sends on this stream
  rest,         \* the part of the body no read has returned yet
  unsubOnDone,  \* whether the observer unsubscribes inside next() on `done`
  spc,          \* the async function: "idle", "fetch", "read" or "ended"
  cancelled,    \* the closure's cancel flag
  closed,       \* the subscriber is stopped (completed, failed, unsubscribed)
  buffer,       \* the decode buffer
  delivered,    \* the events the observer's next() received
  terminal,     \* the terminal notification the observer received
  nextCalls,    \* how many times subscriber.next was called
  unsubscribed, \* the observer has unsubscribed from outside
  ioError       \* the fetch or a read has failed

svars == <<frames, rest, unsubOnDone, spc, cancelled, closed, buffer,
           delivered, terminal, nextCalls, unsubscribed, ioError>>

\* The agent page (AgentPage).
VARIABLES
  messages,            \* the conversation log: a sequence of [role, content]
  logs,                \* the build log lines shown for the running stream
  error,               \* the error shown: <<>> is null
  initialPrompt,       \* the start form's text
  starting,            \* a startSession call is running
  loading,             \* the loading indicator
  sessionId,           \* 0 is null
  streamSubscription,  \* whether a subscription is held
  creating,            \* the createSession calls awaited by startSession
  chatInput,           \* the chat box's text
  sending              \* the sendMessage requests awaited by sendMessage

pvars == <<messages, logs, error, initialPrompt, starting, loading, sessionId,
           streamSubscription, creating, chatInput, sending>>

\* The app creation page (CreateAppPage).
VARIABLES
  jobId,         \* 0 is null
  status,        \* status.status, "null" when status is null
  pollInterval,  \* whether an interval timer is set
  submitting,    \* a submit call is running
  createError,   \* the error shown: <<>> is null
  submits,       \* the createApp requests awaited by submit
  checks,        \* the job ids of the getStatus requests awaited by check
  \* history of the run, read by the properties only
  sinceReset     \* reset() was called and submit() was not called since

cvars == <<jobId, status, pollInterval, submitting, createError, submits,
           checks, sinceReset>>

vars == <<tvars, svars, pvars, cvars>>

Sockets == 1..MaxSockets

DefaultUrl == <<"https://", "agent.kodbro.com">>

\* appendOutput: a line is pushed only when its text is non-empty.
appendOutput(log, type, text) ==
  IF text # <<>> THEN Append(log, [type |-> type, text |-> text]) ELSE log

\* forEach(line => appendOutput(type, line)) over a sequence of lines.
RECURSIVE appendAll(_, _, _)
appendAll(log, type, lines) ==
  IF lines = <<>> THEN log
  ELSE appendAll(appendOutput(log, type, Head(lines)), type, Tail(lines))

TInit ==
  /\ output = <<>>
  /\ commandHistory = <<>>
  /\ historyIndex = -1
  /\ ws = 0
  /\ serverUrl = DefaultUrl
  /\ connected = FALSE
  /\ isRemoteApi = FALSE
  /\ outputBuffer = <<>>
  /\ sock = [s \in Sockets |-> "NONE"]
  /\ sent = [s \in Sockets |-> <<>>]
  /\ inflight = <<>>
  /\ last = [op |-> "init"]
  /\ navLog = <<>>
  /\ inbound = <<>>
  /\ flushed = <<>>
  /\ received = [s \in Sockets |-> <<>>]
  /\ intent = "none"


\* -------------------------------------------- TerminalService: operations
\* A handler runs only if the log holds at most MaxLog lines after it; the
\* user clears the log before it outgrows that.
LogFits == Len(output') <= MaxLog

Line(type, text) == [type |-> type, text |-> text]

\* String.prototype.toLowerCase on the scheme of an address.
ToLower(c) ==
  CASE c = "HTTP://" -> "http://"
    [] c = "HTTPS://" -> "https://"
    [] c = "WS://" -> "ws://"
    [] OTHER -> c

isHttpUrl(url) ==
  /\ Len(url) > 0
  /\ ToLower(Head(url)) \in {"http://", "https://"}

\* new WebSocket(url) throws a SyntaxError unless the scheme is ws or wss.
WebSocketThrows(url) ==
  ~(Len(url) > 0 /\ ToLower(Head(url)) \in {"ws://", "wss://"})

FreeSockets == {s \in Sockets : sock[s] = "NONE"}
NewSocket == CHOOSE s \in FreeSockets : \A t \in FreeSockets : s <= t

\* WebSocket.close(): a connecting or open socket starts closing; its close
\* event is delivered later.
CloseSocket(socks, s) ==
  IF socks[s] \in {"CONNECTING", "OPEN"}
  THEN [socks EXCEPT ![s] = "CLOSING"] ELSE socks

connectRemoteApi(baseUrl) ==
  LET apiBase == StripSlashes(baseUrl)
      wasOpen == ws # 0 /\ sock[ws] = "OPEN"
  IN  /\ sock' = IF wasOpen THEN CloseSocket(sock, ws) ELSE sock
      /\ ws' = IF wasOpen THEN 0 ELSE ws
      /\ serverUrl' = apiBase
      /\ connected' = TRUE
      /\ isRemoteApi' = TRUE
      /\ output' = appendOutput(
                     appendOutput(output, "output",
                                  <<"Connected to remote API: ">> \o apiBase),
                     "output",
                     <<"Type commands below (each runs via POST /api/run).">>)
      /\ UNCHANGED <<commandHistory, historyIndex, outputBuffer, sent,
                     inflight, navLog, inbound, flushed, received>>

connectWebSocket(url) ==
  IF ws # 0 /\ sock[ws] = "OPEN"
  THEN /\ serverUrl' = url
       /\ UNCHANGED <<output, commandHistory, historyIndex, ws, connected,
                      isRemoteApi, outputBuffer, sock, sent, inflight,
                      navLog, inbound, flushed, received>>
  ELSE LET connecting ==
             appendOutput(output, "output",
                          <<"Connecting to ">> \o url \o <<"...">>)
       IN  /\ serverUrl' = url
           /\ isRemoteApi' = FALSE
           /\ IF WebSocketThrows(url)
              THEN /\ connected' = FALSE
                   /\ output' = appendOutput(connecting, "error",
                                  <<"Failed to connect: ", "SyntaxError">>)
                   /\ UNCHANGED <<ws, sock>>
              ELSE /\ FreeSockets # {}
                   /\ ws' = NewSocket
                   /\ sock' = [sock EXCEPT ![NewSocket] = "CONNECTING"]
                   /\ output' = connecting
                   /\ UNCHANGED connected
           /\ UNCHANGED <<commandHistory, historyIndex, outputBuffer, sent,
                          inflight, navLog, inbound, flushed, received>>

\* Whether an address begins with an HTTP-family prefix.
HttpFamily(url) ==
  /\ Len(url) > 0
  /\ Head(url) \in {"http://", "https://", "HTTP://", "HTTPS://"}

\* connect(serverUrl?): arg.given tells whether the argument was passed.
Connect(arg) ==
  /\ UNCHANGED <<svars, pvars, cvars>>
  /\ LET picked == Trim(IF arg.given THEN arg.url ELSE serverUrl)
         url == IF picked # <<>> THEN picked ELSE serverUrl
     IN  /\ last' = [op |-> "connect", url |-> url]
         /\ intent' = IF HttpFamily(url) THEN "oneshot" ELSE "interactive"
         /\ IF isHttpUrl(url) THEN connectRemoteApi(url)
            ELSE connectWebSocket(url)
  /\ LogFits

\* ws.onopen
WsOpen(s) ==
  /\ UNCHANGED <<svars, pvars, cvars>>
  /\ UNCHANGED intent
  /\ sock[s] = "CONNECTING"
  /\ sock' = [sock EXCEPT ![s] = "OPEN"]
  /\ connected' = TRUE
  /\ outputBuffer' = <<>>
  /\ output' = appendOutput(output, "output",
                            <<"Connected. Type commands below.">>)
  /\ inbound' = <<>>
  /\ flushed' = <<>>
  /\ UNCHANGED received
  /\ last' = [op |-> "onopen", socket |-> s]
  /\ UNCHANGED <<commandHistory, historyIndex, ws, serverUrl, isRemoteApi,
                 sent, inflight, navLog>>
  /\ LogFits

\* ws.onerror that also does what ws.onclose does.
WsErrorClose(s) ==
  /\ UNCHANGED <<svars, pvars, cvars>>
  /\ UNCHANGED intent
  /\ sock[s] \in {"CONNECTING", "OPEN", "CLOSING"}
  /\ sock' = [sock EXCEPT ![s] = "FAILED"]
  /\ connected' = FALSE
  /\ ws' = 0
  /\ output' = appendOutput(output, "error", <<"WebSocket error.">>)
  /\ last' = [op |-> "onerror", socket |-> s]
  /\ UNCHANGED <<commandHistory, historyIndex, serverUrl, isRemoteApi,
                 outputBuffer, sent, inflight, navLog, inbound, flushed,
                 received>>
  /\ LogFits

\* ws.onerror: the socket has failed ("FAILED": its error event has been
\* delivered, its close event follows).  A socket the client closed while it
\* was connecting fails too.
WsError(s) ==
  /\ UNCHANGED <<svars, pvars, cvars>>
  /\ UNCHANGED intent
  /\ sock[s] \in {"CONNECTING", "OPEN", "CLOSING"}
  /\ sock' = [sock EXCEPT ![s] = "FAILED"]
  /\ output' = appendOutput(output, "error", <<"WebSocket error.">>)
  /\ last' = [op |-> "onerror", socket |-> s]
  /\ UNCHANGED <<commandHistory, historyIndex, ws, serverUrl, connected,
                 isRemoteApi, outputBuffer, sent, inflight, navLog, inbound,
                 flushed, received>>
  /\ LogFits

\* ws.onclose
WsClose(s) ==
  /\ UNCHANGED <<svars, pvars, cvars>>
  /\ UNCHANGED intent
  /\ sock[s] \in {"CONNECTING", "OPEN", "CLOSING", "FAILED"}
  /\ sock' = [sock EXCEPT ![s] = "CLOSED"]
  /\ connected' = FALSE
  /\ ws' = 0
  /\ output' = appendOutput(output, "output", <<"Disconnected from server.">>)
  /\ last' = [op |-> "onclose", socket |-> s]
  /\ UNCHANGED <<commandHistory, historyIndex, serverUrl, isRemoteApi,
                 outputBuffer, sent, inflight, navLog, inbound, flushed,
                 received>>
  /\ LogFits

\* disconnect() that also forgets the command history.
DisconnectForget ==
  /\ UNCHANGED <<svars, pvars, cvars>>
  /\ sock' = IF ws # 0 THEN CloseSocket(sock, ws) ELSE sock
  /\ ws' = 0
  /\ connected' = FALSE
  /\ isRemoteApi' = FALSE
  /\ output' = appendOutput(output, "output", <<"Disconnected.">>)
  /\ last' = [op |-> "disconnect"]
  /\ intent' = "disconnected"
  /\ commandHistory' = <<>>
  /\ historyIndex' = -1
  /\ UNCHANGED <<serverUrl, outputBuffer, sent, inflight, navLog, inbound,
                 flushed, received>>
  /\ LogFits

Disconnect ==
  /\ UNCHANGED <<svars, pvars, cvars>>
  /\ sock' = IF ws # 0 THEN CloseSocket(sock, ws) ELSE sock
  /\ ws' = 0
  /\ connected' = FALSE
  /\ isRemoteApi' = FALSE
  /\ output' = appendOutput(output, "output", <<"Disconnected.">>)
  /\ last' = [op |-> "disconnect"]
  /\ intent' = "disconnected"
  /\ UNCHANGED <<commandHistory, historyIndex, serverUrl, outputBuffer, sent,
                 inflight, navLog, inbound, flushed, received>>
  /\ LogFits

Clear ==
  /\ UNCHANGED <<svars, pvars, cvars>>
  /\ UNCHANGED intent
  /\ output' = <<>>
  /\ last' = [op |-> "clear"]
  /\ UNCHANGED <<commandHistory, historyIndex, ws, serverUrl, connected,
                 isRemoteApi, outputBuffer, sock, sent, inflight, navLog,
                 inbound, flushed, received>>

\* What a handler did to the log: whether the old log is still its prefix,
\* and the lines that follow it.
Delta(old, new) ==
  [kept |-> Len(new) >= Len(old) /\ SubSeq(new, 1, Len(old)) = old,
   appended |-> IF Len(new) >= Len(old)
                THEN SubSeq(new, Len(old) + 1, Len(new)) ELSE <<>>]

\* flushOutput that splits the chunk alone, without the text held back.
flushOutputNoCarry(log, partial, chunk) ==
  LET lines == Split(chunk)
      buf1 == IF Len(lines) > 1 THEN Last(lines) ELSE partial \o chunk
      log1 == IF Len(lines) > 1
              THEN appendAll(log, "output", Front(lines)) ELSE log
  IN  [output |-> log1, outputBuffer |-> buf1]

\* flushOutput(chunk) on the log and the partial-line buffer.
flushOutput(log, partial, chunk) ==
  LET joined == partial \o chunk
      lines == Split(joined)
      buf1 == IF Len(lines) > 1 THEN Last(lines) ELSE joined
      log1 == IF Len(lines) > 1
              THEN appendAll(log, "output", Front(lines)) ELSE log
  IN  IF buf1 # <<>> /\ ~EndsWith(chunk, LF)
      THEN [output |-> log1, outputBuffer |-> buf1]
      ELSE IF buf1 # <<>>
           THEN [output |-> appendOutput(log1, "output", StripCR(buf1)),
                 outputBuffer |-> <<>>]
           ELSE [output |-> log1, outputBuffer |-> buf1]

\* ws.onmessage
WsMessage(s, chunk) ==
  /\ UNCHANGED <<svars, pvars, cvars>>
  /\ UNCHANGED intent
  /\ sock[s] = "OPEN"
  /\ Len(inbound) + Len(chunk) <= MaxInbound
  /\ LET r == flushOutput(output, outputBuffer, chunk)
     IN  /\ output' = r.output
         /\ outputBuffer' = r.outputBuffer
         /\ inbound' = inbound \o chunk
         /\ received' = [received EXCEPT ![s] = @ \o chunk]
         /\ flushed' = flushed \o Delta(output, r.output).appended
         /\ last' = [op |-> "onmessage", socket |-> s]
  /\ UNCHANGED <<commandHistory, historyIndex, ws, serverUrl, connected,
                 isRemoteApi, sock, sent, inflight, navLog>>
  /\ LogFits

\* getHistory without Math.max and Math.min: the cursor leaves its range.
getHistoryNoClamp(history, index, direction) ==
  IF Len(history) = 0
  THEN [index |-> index, null |-> TRUE, ret |-> <<>>]
  ELSE LET i == IF direction = "prev" THEN index - 1 ELSE index + 1
       IN  [index |-> i, null |-> FALSE,
            ret |-> IF i \in 0..(Len(history) - 1)
                    THEN history[i + 1] ELSE <<>>]

\* getHistory that returns the command under the cursor before moving it.
getHistoryStale(history, index, direction) ==
  IF Len(history) = 0
  THEN [index |-> index, null |-> TRUE, ret |-> <<>>]
  ELSE [index |-> IF direction = "prev" THEN Max(-1, index - 1)
                  ELSE Min(Len(history), index + 1),
        null |-> FALSE,
        ret |-> IF index \in 0..(Len(history) - 1)
                THEN history[index + 1] ELSE <<>>]

\* getHistory(direction): the new cursor and the value returned.
getHistory(history, index, direction) ==
  IF Len(history) = 0
  THEN [index |-> index, null |-> TRUE, ret |-> <<>>]
  ELSE IF direction = "prev"
       THEN LET i == Max(-1, index - 1)
            IN  [index |-> i, null |-> FALSE,
                 ret |-> IF i = -1 THEN <<>> ELSE history[i + 1]]
       ELSE LET i == Min(Len(history), index + 1)
            IN  [index |-> i, null |-> FALSE,
                 ret |-> IF i = Len(history) THEN <<>> ELSE history[i + 1]]

\* The walk through the history since the last executed command is recorded
\* while it is a run of prev calls followed by a run of next calls; a walk of
\* another shape is recorded as Mixed.
Mixed == <<[dir |-> "mixed", ret |-> <<>>]>>
Walk(walk, call) ==
  IF walk = Mixed THEN walk
  ELSE IF walk # <<>> /\ Last(walk).dir = "next" /\ call.dir = "prev"
  THEN Mixed
  ELSE Append(walk, call)

GetHistory(direction) ==
  /\ UNCHANGED <<svars, pvars, cvars>>
  /\ UNCHANGED intent
  /\ Len(navLog) < MaxNav
  /\ LET r == getHistory(commandHistory, historyIndex, direction)
     IN  /\ historyIndex' = r.index
         /\ navLog' = Walk(navLog, [dir |-> direction, ret |-> r.ret])
         /\ last' = [op |-> "getHistory", dir |-> direction,
                     null |-> r.null, ret |-> r.ret, from |-> historyIndex]
  /\ UNCHANGED <<output, commandHistory, ws, serverUrl, connected,
                 isRemoteApi, outputBuffer, sock, sent, inflight, inbound,
                 flushed, received>>

\* runViaRemoteApi up to the fetch call: the request is in flight.
runViaRemoteApi(command) ==
  Append(inflight, [command |-> command,
                    url |-> StripSlashes(serverUrl) \o <<"/api/run">>])

\* executeCommand that tests the raw text, not the trimmed one, for emptiness.
executeCommandNoTrim(raw) ==
  LET cmd == Trim(raw)
  IN  IF raw = <<>>
      THEN UNCHANGED <<output, commandHistory, historyIndex, sent, inflight,
                       navLog>>
      ELSE /\ Len(commandHistory) < MaxCommands
           /\ commandHistory' = Append(commandHistory, cmd)
           /\ historyIndex' = Len(commandHistory')
           /\ navLog' = <<>>
           /\ output' = appendOutput(output, "output",
                   <<"Not connected. Enter server URL and tap Connect.">>)
           /\ UNCHANGED <<sent, inflight>>

executeCommand(raw) ==
  LET cmd == Trim(raw)
  IN  IF cmd = <<>>
      THEN UNCHANGED <<output, commandHistory, historyIndex, sent, inflight,
                       navLog>>
      ELSE IF cmd = <<"c", "l", "e", "a", "r">> \/ cmd = <<"c", "l", "s">>
      THEN /\ output' = <<>>
           /\ UNCHANGED <<commandHistory, historyIndex, sent, inflight,
                          navLog>>
      ELSE /\ Len(commandHistory) < MaxCommands
           /\ commandHistory' = Append(commandHistory, cmd)
           /\ historyIndex' = Len(commandHistory')
           /\ navLog' = <<>>
           /\ IF ~connected
              THEN /\ output' = appendOutput(output, "output",
                        <<"Not connected. Enter server URL and tap Connect.">>)
                   /\ UNCHANGED <<sent, inflight>>
              ELSE /\ output' = appendOutput(output, "command", cmd)
                   /\ IF isRemoteApi
                      THEN /\ Len(inflight) < MaxRequests
                           /\ inflight' = runViaRemoteApi(cmd)
                           /\ UNCHANGED sent
                      ELSE IF ws # 0 /\ sock[ws] = "OPEN"
                      THEN /\ sent' = [sent EXCEPT
                                         ![ws] = Append(@, cmd \o <<LF>>)]
                           /\ UNCHANGED inflight
                      ELSE UNCHANGED <<sent, inflight>>

ExecuteCommand(raw) ==
  /\ UNCHANGED <<svars, pvars, cvars>>
  /\ UNCHANGED intent
  /\ executeCommand(raw)
  /\ last' = [op |-> "executeCommand", raw |-> raw]
  /\ UNCHANGED <<ws, serverUrl, connected, isRemoteApi, outputBuffer, sock,
                 inbound, flushed, received>>
  /\ LogFits

\* onRunResponse with the two streams in the other order.
onRunResponseErrFirst(log, data) ==
  LET log1 == IF data.hasStderr /\ data.stderr # <<>>
              THEN appendAll(log, "error", Split(data.stderr)) ELSE log
      log2 == IF data.hasStdout /\ data.stdout # <<>>
              THEN appendAll(log1, "output", Split(data.stdout)) ELSE log1
  IN  IF data.timedOut
      THEN appendOutput(log2, "error", <<"Command timed out.">>) ELSE log2

\* The .then handler of runViaRemoteApi on the decoded response.
onRunResponse(log, data) ==
  LET log1 == IF data.hasStdout /\ data.stdout # <<>>
              THEN appendAll(log, "output", Split(data.stdout)) ELSE log
      log2 == IF data.hasStderr /\ data.stderr # <<>>
              THEN appendAll(log1, "error", Split(data.stderr)) ELSE log1
  IN  IF data.timedOut
      THEN appendOutput(log2, "error", <<"Command timed out.">>) ELSE log2

\* onRunFailure that shows err.message alone, with no fallback text.
onRunFailureBare(log, message) == appendOutput(log, "error", message)

\* The .catch handler of runViaRemoteApi.
onRunFailure(log, message) ==
  appendOutput(log, "error",
               <<"Request failed: ">>
                 \o (IF message # <<>> THEN message ELSE <<"Network error">>)
                 \o <<". Check URL and CORS.">>)

\* The promise chain of one request settles.  outcome.kind is "data" (the
\* body decoded to an object), "null" (the body decoded to null, so reading
\* data.stdout throws inside .then), "badjson" (res.json() rejects) or
\* "reject" (fetch rejects: no response at all).
settleRun(log, outcome) ==
  CASE outcome.kind = "data" -> onRunResponse(log, outcome.data)
    [] outcome.kind = "null" ->
         onRunFailure(log, <<"Cannot read properties of null">>)
    [] OTHER -> onRunFailure(log, outcome.message)

FetchSettle(i, outcome) ==
  /\ UNCHANGED <<svars, pvars, cvars>>
  /\ UNCHANGED intent
  /\ i \in 1..Len(inflight)
  /\ output' = settleRun(output, outcome)
  /\ inflight' = SubSeq(inflight, 1, i - 1)
                   \o SubSeq(inflight, i + 1, Len(inflight))
  /\ last' = [op |-> "settle", request |-> inflight[i], outcome |-> outcome,
              delta |-> Delta(output, output')]
  /\ UNCHANGED <<commandHistory, historyIndex, ws, serverUrl, connected,
                 isRemoteApi, outputBuffer, sock, sent, navLog, inbound,
                 flushed, received>>
  /\ LogFits

\* ------------------------------------- AgentService.streamSessionLogs
\* The body of the response is a text of tokens: the markers "event: " and
\* "data: ", an event-type name, a payload, and the line terminator.  A read
\* may cut the body between any two tokens.

\* The payloads: the i-th frame of a body carries the number i, so that
\* every event names the frame it comes from.
LogJson(i) == "{log:" \o ToString(i) \o "}"
DoneJson(i) == "{done:" \o ToString(i) \o "}"
ErrorJson(i) == "{error:" \o ToString(i) \o "}"
NotJson == "oops"

\* JSON.parse: it throws on a payload that is not JSON.
JSONValid(data) ==
  /\ Len(data) = 1
  /\ \E i \in 1..MaxFrames :
       data[1] \in {LogJson(i), DoneJson(i), ErrorJson(i)}
JSONParse(data) ==
  LET i == CHOOSE j \in 1..MaxFrames :
             data[1] \in {LogJson(j), DoneJson(j), ErrorJson(j)}
  IN  [type |-> CASE data[1] = DoneJson(i) -> "done"
                  [] data[1] = ErrorJson(i) -> "error"
                  [] OTHER -> "log",
       id |-> i]

\* The frames of a body: `log` and `done` frames with a JSON payload, and
\* "bad", a frame whose data line is not JSON.
FrameKinds == {"log", "done", "bad"}

\* One frame on the wire: an event line, a data line, a blank line.  A body
\* may also hold frames that lack a line ("eventonly", "dataonly") and end
\* with a frame that lacks its blank line ("open"), its data line ("half") or
\* the terminator of its data line ("cut").
Encode(kind, i) ==
  CASE kind = "eventonly" -> <<"event: ", "log", LF, LF>>
    [] kind = "dataonly" -> <<"data: ", LogJson(i), LF, LF>>
    [] kind = "open" -> <<"event: ", "log", LF, "data: ", LogJson(i), LF>>
    [] kind = "half" -> <<"event: ", "log", LF>>
    [] kind = "cut" -> <<"event: ", "log", LF, "data: ", LogJson(i)>>
    [] OTHER ->
         <<"event: ", CASE kind = "done" -> "done"
                        [] kind = "error" -> "error"
                        [] OTHER -> "log", LF,
           "data: ", CASE kind = "log" -> LogJson(i)
                       [] kind = "done" -> DoneJson(i)
                       [] kind = "error" -> ErrorJson(i)
                       [] OTHER -> NotJson, LF, LF>>

RECURSIVE EncodeFrom(_, _)
EncodeFrom(fs, i) ==
  IF i > Len(fs) THEN <<>> ELSE Encode(fs[i], i) \o EncodeFrom(fs, i + 1)
EncodeAll(fs) == EncodeFrom(fs, 1)

FrameSeqs == UNION {[1..n -> FrameKinds] : n \in 0..MaxFrames}

\* No stream is open yet.
SInit ==
  /\ frames = <<>>
  /\ rest = <<>>
  /\ unsubOnDone = FALSE
  /\ spc = "idle"
  /\ cancelled = FALSE
  /\ closed = FALSE
  /\ buffer = <<>>
  /\ delivered = <<>>
  /\ terminal = "none"
  /\ nextCalls = 0
  /\ unsubscribed = FALSE
  /\ ioError = FALSE

\* The state of the for-loop over the complete lines of one read: the Frame
\* accumulator, the subscriber, and whether the function has returned.
\* subscriber.next delivers only while the subscriber is not stopped; the
\* observer may unsubscribe inside next(); subscriber.complete stops the
\* subscriber and runs the teardown, which sets the cancel flag.
\* DispatchFrame without the `return` after subscriber.complete().
DispatchFrameNoReturn(st) ==
  IF ~JSONValid(st.eventData)
  THEN [st EXCEPT !.eventType = <<>>, !.eventData = <<>>]
  ELSE LET data == JSONParse(st.eventData)
           got == IF st.closed THEN st.delivered
                  ELSE Append(st.delivered, data)
           unsub == ~st.closed /\ data.type = "done" /\ unsubOnDone
           st1 == [st EXCEPT !.delivered = got,
                             !.nextCalls = @ + 1,
                             !.closed = @ \/ unsub,
                             !.cancelled = @ \/ unsub,
                             !.eventType = <<>>, !.eventData = <<>>]
       IN  IF data.type = "done"
           THEN [st1 EXCEPT !.terminal = IF st1.closed THEN @ ELSE "complete",
                            !.closed = TRUE,
                            !.cancelled = TRUE]
           ELSE st1

DispatchFrame(st) ==
  IF ~JSONValid(st.eventData)
  THEN [st EXCEPT !.eventType = <<>>, !.eventData = <<>>]
  ELSE LET data == JSONParse(st.eventData)
           got == IF st.closed THEN st.delivered
                  ELSE Append(st.delivered, data)
           unsub == ~st.closed /\ data.type = "done" /\ unsubOnDone
           st1 == [st EXCEPT !.delivered = got,
                             !.nextCalls = @ + 1,
                             !.closed = @ \/ unsub,
                             !.cancelled = @ \/ unsub]
       IN  IF data.type = "done"
           THEN [st1 EXCEPT !.terminal = IF st1.closed THEN @ ELSE "complete",
                            !.closed = TRUE,
                            !.cancelled = TRUE,
                            !.returned = TRUE]
           ELSE [st1 EXCEPT !.eventType = <<>>, !.eventData = <<>>]

ProcessLine(st, line) ==
  IF Len(line) > 0 /\ Head(line) = "event: "
  THEN [st EXCEPT !.eventType = Trim(Tail(line))]
  ELSE IF Len(line) > 0 /\ Head(line) = "data: "
  THEN [st EXCEPT !.eventData = Tail(line)]
  ELSE IF line = <<>> /\ st.eventType # <<>> /\ st.eventData # <<>>
  THEN DispatchFrame(st)
  ELSE st

RECURSIVE ProcessLines(_, _)
ProcessLines(st, lines) ==
  IF lines = <<>> \/ st.returned THEN st
  ELSE ProcessLines(ProcessLine(st, Head(lines)), Tail(lines))

\* One iteration of the read loop on a chunk: the Frame accumulator is
\* declared inside the loop body.
ReadChunk(chunk) ==
  LET lines == Split(buffer \o chunk)
  IN  ProcessLines([eventType |-> <<>>, eventData |-> <<>>,
                    delivered |-> delivered, nextCalls |-> nextCalls,
                    closed |-> closed, cancelled |-> cancelled,
                    terminal |-> terminal, returned |-> FALSE],
                   Front(lines))

\* `while (!cancelled)` followed by the next reader.read() (spc = "read": a
\* read is in flight), or by the subscriber.complete() after the loop.
\* LoopTop as `while (true)`: the cancel flag is not looked at.
LoopTopNoCheck(isCancelled, isClosed, term) ==
  /\ spc' = "read"
  /\ terminal' = term
  /\ closed' = isClosed
  /\ cancelled' = isCancelled

LoopTop(isCancelled, isClosed, term) ==
  IF isCancelled
  THEN /\ spc' = "ended"
       /\ terminal' = IF isClosed THEN term ELSE "complete"
       /\ closed' = TRUE
       /\ cancelled' = TRUE
  ELSE /\ spc' = "read"
       /\ terminal' = term
       /\ closed' = isClosed
       /\ cancelled' = isCancelled

\* subscriber.error(err)
SubscriberError ==
  /\ spc' = "ended"
  /\ terminal' = IF closed THEN terminal ELSE "error"
  /\ closed' = TRUE
  /\ cancelled' = TRUE

\* subscribe() on the Observable: the async function runs up to its fetch.
\* fs is the body the server will send; unsub tells whether the observer
\* unsubscribes inside next() when it receives `done`, as AgentPage does.
Subscribe(fs, unsub) ==
  /\ UNCHANGED <<tvars, pvars, cvars>>
  /\ spc = "idle"
  /\ spc' = "fetch"
  /\ frames' = fs
  /\ rest' = EncodeAll(fs)
  /\ unsubOnDone' = unsub
  /\ UNCHANGED <<cancelled, closed, buffer, delivered, terminal, nextCalls,
                 unsubscribed, ioError>>

\* FetchResume that starts the first read without looking at the flag.
FetchResumeNoCheck(result) ==
  /\ UNCHANGED <<tvars, pvars, cvars>>
  /\ spc = "fetch"
  /\ CASE result = "ok" ->
            /\ spc' = "read"
            /\ UNCHANGED <<terminal, closed, cancelled>>
       [] result = "reject" ->
            IF cancelled
            THEN /\ spc' = "ended"
                 /\ UNCHANGED <<terminal, closed, cancelled>>
            ELSE SubscriberError
       [] OTHER -> SubscriberError
  /\ ioError' = (result # "ok")
  /\ UNCHANGED <<frames, rest, unsubOnDone, buffer, delivered, nextCalls,
                 unsubscribed>>

\* The fetch settles: "ok", "notok" (res.ok is false), "nobody" (no body
\* reader) or "reject" (fetch throws).
fetchResume(result) ==
  /\ spc = "fetch"
  /\ CASE result = "ok" -> LoopTop(cancelled, closed, terminal)
       [] result = "reject" ->
            IF cancelled
            THEN /\ spc' = "ended"
                 /\ UNCHANGED <<terminal, closed, cancelled>>
            ELSE SubscriberError
       [] OTHER -> SubscriberError
  /\ ioError' = (result # "ok")
  /\ UNCHANGED <<frames, rest, unsubOnDone, buffer, delivered, nextCalls,
                 unsubscribed>>

\* The fetch settles for a subscriber that is not the page.
FetchResume(result) ==
  /\ UNCHANGED <<tvars, pvars, cvars>>
  /\ fetchResume(result)

\* reader.read() resolves with the next k tokens of the body.
readValue(k) ==
  /\ spc = "read"
  /\ k \in 1..Len(rest)
  /\ LET chunk == SubSeq(rest, 1, k)
         st == ReadChunk(chunk)
     IN  /\ rest' = SubSeq(rest, k + 1, Len(rest))
         /\ buffer' = Last(Split(buffer \o chunk))
         /\ delivered' = st.delivered
         /\ nextCalls' = st.nextCalls
         /\ IF st.returned
            THEN /\ spc' = "ended"
                 /\ terminal' = st.terminal
                 /\ closed' = st.closed
                 /\ cancelled' = st.cancelled
            ELSE LoopTop(st.cancelled, st.closed, st.terminal)
  /\ UNCHANGED <<frames, unsubOnDone, unsubscribed, ioError>>

\* A read returns text for a subscriber that is not the page.
ReadValue(k) ==
  /\ UNCHANGED <<tvars, pvars, cvars>>
  /\ readValue(k)

\* ReadDone that fails the subscription when text is left in the buffer.
ReadDoneStrict ==
  /\ UNCHANGED <<tvars, pvars, cvars>>
  /\ spc = "read"
  /\ rest = <<>>
  /\ spc' = "ended"
  /\ terminal' = IF closed THEN terminal
                 ELSE IF buffer # <<>> THEN "error" ELSE "complete"
  /\ closed' = TRUE
  /\ cancelled' = TRUE
  /\ UNCHANGED <<frames, rest, unsubOnDone, buffer, delivered, nextCalls,
                 unsubscribed, ioError>>

\* reader.read() resolves with done: the body has ended.
readDone ==
  /\ spc = "read"
  /\ rest = <<>>
  /\ spc' = "ended"
  /\ terminal' = IF closed THEN terminal ELSE "complete"
  /\ closed' = TRUE
  /\ cancelled' = TRUE
  /\ UNCHANGED <<frames, rest, unsubOnDone, buffer, delivered, nextCalls,
                 unsubscribed, ioError>>

\* The body ends for a subscriber that is not the page.
ReadDone ==
  /\ UNCHANGED <<tvars, pvars, cvars>>
  /\ readDone

\* ReadError that takes the failure for the end of the body.
ReadErrorAsDone ==
  /\ UNCHANGED <<tvars, pvars, cvars>>
  /\ spc = "read"
  /\ spc' = "ended"
  /\ terminal' = IF closed THEN terminal ELSE "complete"
  /\ closed' = TRUE
  /\ cancelled' = TRUE
  /\ ioError' = TRUE
  /\ UNCHANGED <<frames, rest, unsubOnDone, buffer, delivered, nextCalls,
                 unsubscribed>>

\* reader.read() rejects.
readError ==
  /\ spc = "read"
  /\ IF cancelled
     THEN /\ spc' = "ended"
          /\ UNCHANGED <<terminal, closed, cancelled>>
     ELSE SubscriberError
  /\ ioError' = TRUE
  /\ UNCHANGED <<frames, rest, unsubOnDone, buffer, delivered, nextCalls,
                 unsubscribed>>

\* A read fails for a subscriber that is not the page.
ReadError ==
  /\ UNCHANGED <<tvars, pvars, cvars>>
  /\ readError

\* The observer unsubscribes: the subscriber stops and the teardown sets the
\* cancel flag.
Unsubscribe ==
  /\ UNCHANGED <<tvars, pvars, cvars>>
  /\ spc # "idle"
  /\ ~closed
  /\ closed' = TRUE
  /\ cancelled' = TRUE
  /\ unsubscribed' = TRUE
  /\ UNCHANGED <<frames, rest, unsubOnDone, spc, buffer, delivered, terminal,
                 nextCalls, ioError>>

StreamNext ==
  \/ \E fs \in FrameSeqs, unsub \in BOOLEAN : Subscribe(fs, unsub)
  \/ \E result \in {"ok", "notok", "nobody", "reject"} : FetchResume(result)
  \/ \E k \in 1..(7 * MaxFrames) : ReadValue(k)
  \/ ReadDone
  \/ ReadError
  \/ Unsubscribe


\* ------------------------------------------------------------ AgentPage
PInit ==
  /\ messages = <<>>
  /\ logs = <<>>
  /\ error = <<>>
  /\ initialPrompt = <<>>
  /\ starting = FALSE
  /\ loading = FALSE
  /\ sessionId = 0
  /\ streamSubscription = FALSE
  /\ creating = <<>>
  /\ chatInput = <<>>
  /\ sending = <<>>

Message(role, content) == [role |-> role, content |-> content]

\* The user edits the start form.
SetPrompt(text) ==
  /\ UNCHANGED <<tvars, svars, cvars>>
  /\ initialPrompt # text
  /\ initialPrompt' = text
  /\ UNCHANGED <<messages, logs, error, starting, loading, sessionId,
                 streamSubscription, creating, chatInput, sending>>

\* startSession up to `await this.agent.createSession(msg, git)`.
StartSession ==
  /\ UNCHANGED <<tvars, svars, cvars>>
  /\ LET msg == Trim(initialPrompt)
     IN  IF msg = <<>>
         THEN /\ error' = <<"Describe what you want to build">>
              /\ UNCHANGED <<logs, starting, creating>>
         ELSE /\ Len(creating) < MaxInflight
              /\ Len(messages) + 2 * (Len(creating) + 1) <= MaxMessages
              /\ error' = <<>>
              /\ starting' = TRUE
              /\ logs' = <<>>
              /\ creating' = Append(creating, msg)
  /\ UNCHANGED <<messages, initialPrompt, loading, sessionId,
                 streamSubscription, chatInput, sending>>

\* streamSessionLogs(id).subscribe(...): a new execution of the stream starts
\* and runs up to its fetch; the page's observer unsubscribes on `done`.
subscribeToStream(fs) ==
  /\ spc' = "fetch"
  /\ frames' = fs
  /\ rest' = EncodeAll(fs)
  /\ unsubOnDone' = TRUE
  /\ cancelled' = FALSE
  /\ closed' = FALSE
  /\ buffer' = <<>>
  /\ delivered' = <<>>
  /\ terminal' = "none"
  /\ nextCalls' = 0
  /\ unsubscribed' = FALSE
  /\ ioError' = FALSE

\* CreateSessionResolve that subscribes to the stream whatever the reply.
CreateSessionResolveStream(i, id, reply, fs) ==
  /\ last' = [op |-> "createSession", reply |-> reply]
  /\ UNCHANGED <<output, commandHistory, historyIndex, ws, serverUrl,
                 connected, isRemoteApi, outputBuffer, sock, sent, inflight,
                 navLog, inbound, flushed, received, intent, cvars>>
  /\ i \in 1..Len(creating)
  /\ creating' = SubSeq(creating, 1, i - 1)
                   \o SubSeq(creating, i + 1, Len(creating))
  /\ sessionId' = id
  /\ initialPrompt' = <<>>
  /\ starting' = FALSE
  /\ messages' = IF reply # <<>>
                 THEN messages \o <<Message("user", creating[i]),
                                    Message("assistant", reply)>>
                 ELSE Append(messages, Message("user", creating[i]))
  /\ loading' = TRUE
  /\ streamSubscription' = TRUE
  /\ subscribeToStream(fs)
  /\ UNCHANGED <<logs, error, chatInput, sending>>

\* createSession resolves and startSession resumes: res.session_id is id,
\* res.reply is reply (<<>> when there is none), and fs is the body of the
\* stream the page subscribes to when there is no reply.
CreateSessionResolve(i, id, reply, fs) ==
  /\ last' = [op |-> "createSession", reply |-> reply]
  /\ UNCHANGED <<output, commandHistory, historyIndex, ws, serverUrl,
                 connected, isRemoteApi, outputBuffer, sock, sent, inflight,
                 navLog, inbound, flushed, received, intent, cvars>>
  /\ i \in 1..Len(creating)
  /\ creating' = SubSeq(creating, 1, i - 1)
                   \o SubSeq(creating, i + 1, Len(creating))
  /\ sessionId' = id
  /\ initialPrompt' = <<>>
  /\ starting' = FALSE
  /\ IF reply # <<>>
     THEN /\ messages' = messages \o <<Message("user", creating[i]),
                                       Message("assistant", reply)>>
          /\ UNCHANGED <<loading, streamSubscription, svars>>
     ELSE /\ messages' = Append(messages, Message("user", creating[i]))
          /\ loading' = TRUE
          /\ streamSubscription' = TRUE
          /\ subscribeToStream(fs)
  /\ UNCHANGED <<logs, error, chatInput, sending>>

\* createSession rejects: the catch block of startSession.
CreateSessionReject(i, message) ==
  /\ UNCHANGED <<tvars, svars, cvars>>
  /\ i \in 1..Len(creating)
  /\ creating' = SubSeq(creating, 1, i - 1)
                   \o SubSeq(creating, i + 1, Len(creating))
  /\ error' = IF message # <<>> THEN message ELSE <<"Failed to start">>
  /\ starting' = FALSE
  /\ UNCHANGED <<messages, logs, initialPrompt, loading, sessionId,
                 streamSubscription, chatInput, sending>>

\* The page's fields that its observer assigns.
Observed ==
  [messages |-> messages, logs |-> logs, error |-> error,
   loading |-> loading, streamSubscription |-> streamSubscription]

\* The `done` branch of next that leaves the loading indicator set.
onNextKeepLoading(pg, ev) ==
  CASE ev.type = "log" ->
         [pg EXCEPT !.logs = Append(@, <<"log ", ToString(ev.id)>>)]
    [] ev.type = "done" ->
         [pg EXCEPT !.messages =
                      Append(@, Message("assistant",
                                        <<"reply ", ToString(ev.id)>>)),
                    !.streamSubscription = FALSE]
    [] ev.type = "error" ->
         [pg EXCEPT !.error = <<"error ", ToString(ev.id)>>]
    [] OTHER -> pg

\* The `error` branch of next that also gives up the subscription.
onNextErrorStops(pg, ev) ==
  CASE ev.type = "log" ->
         [pg EXCEPT !.logs = Append(@, <<"log ", ToString(ev.id)>>)]
    [] ev.type = "done" ->
         [pg EXCEPT !.messages =
                      Append(@, Message("assistant",
                                        <<"reply ", ToString(ev.id)>>)),
                    !.loading = FALSE,
                    !.streamSubscription = FALSE]
    [] ev.type = "error" ->
         [pg EXCEPT !.error = <<"error ", ToString(ev.id)>>,
                    !.loading = FALSE,
                    !.streamSubscription = FALSE]
    [] OTHER -> pg

\* The observer's next(ev): ev.message, ev.reply (with ev.tool_summary) and
\* ev.error are the texts "log i", "reply i" and "error i" of the event of
\* frame i.  The unsubscribe of the `done` branch stops the subscriber inside
\* DispatchFrame (unsubOnDone).
onNext(pg, ev) ==
  CASE ev.type = "log" ->
         [pg EXCEPT !.logs = Append(@, <<"log ", ToString(ev.id)>>)]
    [] ev.type = "done" ->
         [pg EXCEPT !.messages =
                      Append(@, Message("assistant",
                                        <<"reply ", ToString(ev.id)>>)),
                    !.loading = FALSE,
                    !.streamSubscription = FALSE]
    [] ev.type = "error" ->
         [pg EXCEPT !.error = <<"error ", ToString(ev.id)>>]
    [] OTHER -> pg

RECURSIVE onNextAll(_, _)
onNextAll(pg, events) ==
  IF events = <<>> THEN pg
  ELSE onNextAll(onNext(pg, Head(events)), Tail(events))

\* The observer's error(err).
onError(pg) ==
  [pg EXCEPT !.error = <<"Stream failed">>,
             !.loading = FALSE,
             !.streamSubscription = FALSE]

\* What a step of the stream does to the page: next() for each event the
\* step delivered, then error() if the step reported a failure.
Observe ==
  LET fresh == Delta(delivered, delivered').appended
      pg == onNextAll(Observed, fresh)
      end == IF terminal' = "error" /\ terminal # "error"
             THEN onError(pg) ELSE pg
  IN  /\ messages' = end.messages
      /\ logs' = end.logs
      /\ error' = end.error
      /\ loading' = end.loading
      /\ streamSubscription' = end.streamSubscription
      /\ UNCHANGED <<initialPrompt, starting, sessionId, creating, chatInput,
                     sending>>

\* The conversation log holds at most MaxMessages messages after a handler.
MessagesFit == Len(messages') <= MaxMessages

\* The steps of the stream the page has subscribed to.
PageFetchResume(result) ==
  /\ UNCHANGED <<tvars, cvars>>
  /\ fetchResume(result)
  /\ Observe

PageReadValue(k) ==
  /\ UNCHANGED <<tvars, cvars>>
  /\ readValue(k)
  /\ Observe
  /\ MessagesFit

PageReadDone ==
  /\ UNCHANGED <<tvars, cvars>>
  /\ readDone
  /\ Observe

PageReadError ==
  /\ UNCHANGED <<tvars, cvars>>
  /\ readError
  /\ Observe

\* this.streamSubscription?.unsubscribe()
unsubscribe ==
  IF streamSubscription /\ ~closed
  THEN /\ closed' = TRUE
       /\ cancelled' = TRUE
       /\ unsubscribed' = TRUE
       /\ UNCHANGED <<frames, rest, unsubOnDone, spc, buffer, delivered,
                      terminal, nextCalls, ioError>>
  ELSE UNCHANGED svars

\* ngOnDestroy
NgOnDestroy ==
  /\ UNCHANGED <<tvars, pvars, cvars>>
  /\ unsubscribe

\* The user types raw into the chat box and submits: sendMessage up to
\* `await this.agent.sendMessage(this.sessionId, msg, git)`.
SendMessage(raw) ==
  /\ UNCHANGED <<tvars, svars, cvars>>
  /\ LET msg == Trim(raw)
     IN  IF msg = <<>> \/ sessionId = 0
         THEN /\ chatInput' = raw
              /\ UNCHANGED <<messages, logs, error, loading, sending>>
         ELSE /\ Len(sending) < MaxInflight
              /\ error' = <<>>
              /\ messages' = Append(messages, Message("user", msg))
              /\ chatInput' = <<>>
              /\ loading' = TRUE
              /\ logs' = <<>>
              /\ sending' = Append(sending, msg)
  /\ UNCHANGED <<initialPrompt, starting, sessionId, streamSubscription,
                 creating>>
  /\ MessagesFit

\* sendMessage after its await that pushes res.reply whatever res.streaming.
sendMessageResolveBoth(i, streaming, reply, fs) ==
  /\ i \in 1..Len(sending)
  /\ sending' = SubSeq(sending, 1, i - 1)
                  \o SubSeq(sending, i + 1, Len(sending))
  /\ messages' = Append(messages, Message("assistant", reply))
  /\ IF streaming
     THEN /\ streamSubscription' = TRUE
          /\ subscribeToStream(fs)
          /\ UNCHANGED loading
     ELSE /\ loading' = FALSE
          /\ UNCHANGED <<streamSubscription, svars>>
  /\ UNCHANGED <<logs, error, initialPrompt, starting, sessionId, creating,
                 chatInput>>
  /\ MessagesFit

\* sendMessage after `await this.agent.sendMessage(...)` has resolved:
\* res.streaming, res.reply, and the body fs of the stream the page
\* subscribes to when the server streams.  The unsubscribe of line 490 ends
\* the stream held before; the new execution takes its place.
sendMessageResolve(i, streaming, reply, fs) ==
  /\ i \in 1..Len(sending)
  /\ sending' = SubSeq(sending, 1, i - 1)
                  \o SubSeq(sending, i + 1, Len(sending))
  /\ IF streaming
     THEN /\ streamSubscription' = TRUE
          /\ subscribeToStream(fs)
          /\ UNCHANGED <<messages, loading>>
     ELSE /\ messages' = Append(messages, Message("assistant", reply))
          /\ loading' = FALSE
          /\ UNCHANGED <<streamSubscription, svars>>
  /\ UNCHANGED <<logs, error, initialPrompt, starting, sessionId, creating,
                 chatInput>>
  /\ MessagesFit

SendMessageResolve(i, streaming, reply, fs) ==
  /\ UNCHANGED <<tvars, cvars>>
  /\ sendMessageResolve(i, streaming, reply, fs)

\* The same step, with the response recorded in `last`.
FollowUpResolve(i, streaming, reply, fs) ==
  /\ last' = [op |-> "sendMessage", streaming |-> streaming,
              reply |-> reply]
  /\ UNCHANGED <<output, commandHistory, historyIndex, ws, serverUrl,
                 connected, isRemoteApi, outputBuffer, sock, sent, inflight,
                 navLog, inbound, flushed, received, intent, cvars>>
  /\ sendMessageResolve(i, streaming, reply, fs)

\* sendMessage rejects: the catch block of sendMessage.
SendMessageReject(i, message) ==
  /\ UNCHANGED <<tvars, svars, cvars>>
  /\ i \in 1..Len(sending)
  /\ sending' = SubSeq(sending, 1, i - 1)
                  \o SubSeq(sending, i + 1, Len(sending))
  /\ error' = IF message # <<>> THEN message
              ELSE <<"Failed to send message">>
  /\ messages' = IF messages = <<>> THEN messages ELSE Front(messages)
  /\ loading' = FALSE
  /\ UNCHANGED <<logs, initialPrompt, starting, sessionId, streamSubscription,
                 creating, chatInput>>

\* Sessions are started from the start form.
Prompts == {<<>>, <<SP>>, <<"x">>, <<SP, "y", SP>>}

PageNext ==
  \/ \E text \in Prompts : SetPrompt(text)
  \/ StartSession
  \/ \E i \in 1..MaxInflight, id \in 1..2, reply \in {<<>>, <<"ok">>},
        fs \in {<<>>, <<"log", "done">>} :
       CreateSessionResolve(i, id, reply, fs)
  \/ \E i \in 1..MaxInflight, message \in {<<>>, <<"HTTP 500">>} :
       CreateSessionReject(i, message)

\* --------------------------------------------------------- CreateAppPage
\* seq without its k-th element.
Without(seq, k) == SubSeq(seq, 1, k - 1) \o SubSeq(seq, k + 1, Len(seq))

CInit ==
  /\ jobId = 0
  /\ status = "null"
  /\ pollInterval = FALSE
  /\ submitting = FALSE
  /\ createError = <<>>
  /\ submits = 0
  /\ checks = <<>>
  /\ sinceReset = FALSE

\* submit up to `await this.appCreate.createApp(req)`; valid says whether the
\* form passes the checks of lines 111 to 130.
Submit(valid) ==
  /\ UNCHANGED <<tvars, svars, pvars>>
  /\ sinceReset' = FALSE
  /\ IF ~valid
     THEN /\ createError' = <<"App name is required">>
          /\ UNCHANGED <<submitting, submits>>
     ELSE /\ submits < MaxSubmits
          /\ createError' = <<>>
          /\ submitting' = TRUE
          /\ submits' = submits + 1
  /\ UNCHANGED <<jobId, status, pollInterval, checks>>

\* createApp resolves and submit resumes: res carries a result (repo_url or
\* deploy_url), a job id, or neither.  With a job id, startPolling stops the
\* timer, runs check() once, which awaits getStatus, and sets the timer.
CreateAppResolve(res) ==
  /\ UNCHANGED <<tvars, svars, pvars>>
  /\ submits > 0
  /\ submits' = submits - 1
  /\ submitting' = FALSE
  /\ CASE res.kind = "result" ->
            /\ status' = "done"
            /\ jobId' = 0
            /\ UNCHANGED <<pollInterval, createError, checks>>
       [] res.kind = "job" ->
            /\ Len(checks) < MaxChecks
            /\ jobId' = res.id
            /\ checks' = Append(checks, res.id)
            /\ pollInterval' = TRUE
            /\ UNCHANGED <<status, createError>>
       [] OTHER ->
            /\ createError' = <<"Unexpected response from server">>
            /\ UNCHANGED <<jobId, status, pollInterval, checks>>
  /\ UNCHANGED sinceReset

\* createApp rejects: the catch block of submit.
CreateAppReject ==
  /\ UNCHANGED <<tvars, svars, pvars>>
  /\ submits > 0
  /\ submits' = submits - 1
  /\ submitting' = FALSE
  /\ createError' = <<"Failed to start creation">>
  /\ UNCHANGED <<jobId, status, pollInterval, checks, sinceReset>>

\* The interval timer fires: check() up to `await getStatus(this.jobId)`.
Tick ==
  /\ UNCHANGED <<tvars, svars, pvars>>
  /\ pollInterval
  /\ jobId # 0
  /\ Len(checks) < MaxChecks
  /\ checks' = Append(checks, jobId)
  /\ UNCHANGED <<jobId, status, pollInterval, submitting, createError,
                 submits, sinceReset>>

\* getStatus resolves with the status st and check resumes.
CheckResolve(i, st) ==
  /\ UNCHANGED <<tvars, svars, pvars>>
  /\ i \in 1..Len(checks)
  /\ checks' = Without(checks, i)
  /\ status' = st
  /\ pollInterval' = IF st \in {"done", "failed"} THEN FALSE
                     ELSE pollInterval
  /\ UNCHANGED <<jobId, submitting, createError, submits, sinceReset>>

\* getStatus rejects: the catch block of check.
CheckReject(i) ==
  /\ UNCHANGED <<tvars, svars, pvars>>
  /\ i \in 1..Len(checks)
  /\ checks' = Without(checks, i)
  /\ pollInterval' = FALSE
  /\ UNCHANGED <<jobId, status, submitting, createError, submits,
                 sinceReset>>

\* reset(); the new repoId is not part of the state.
Reset ==
  /\ UNCHANGED <<tvars, svars, pvars>>
  /\ pollInterval' = FALSE
  /\ jobId' = 0
  /\ status' = "null"
  /\ createError' = <<>>
  /\ sinceReset' = TRUE
  /\ UNCHANGED <<submitting, submits, checks>>

\* ------------------------------------------ properties of the event stream
\* The events a body stands for: one per frame with a JSON payload, in frame
\* order, up to and including the first `done`.
RECURSIVE ExpectedFrom(_, _)
ExpectedFrom(fs, i) ==
  IF i > Len(fs) THEN <<>>
  ELSE IF fs[i] = "bad" THEN ExpectedFrom(fs, i + 1)
  ELSE IF fs[i] = "done" THEN <<[type |-> "done", id |-> i]>>
  ELSE <<[type |-> "log", id |-> i]>> \o ExpectedFrom(fs, i + 1)
Expected(fs) == ExpectedFrom(fs, 1)

\* The stream ran to its end, or to its `done`, with no failure of the
\* fetch or of a read and without the observer unsubscribing from outside.
RanToEnd == spc = "ended" /\ ~ioError /\ ~unsubscribed

DoneDelivered == \E i \in 1..Len(delivered) : delivered[i].type = "done"

\* C2: whatever the cut of a body of well-formed frames into chunks, the
\* observer receives exactly one event per frame, in frame order.
C2_OneEventPerFrame ==
  (RanToEnd /\ \A i \in 1..Len(frames) : frames[i] # "bad")
    => delivered = Expected(frames)

\* C3: once a `done` event is delivered the subscription is completed, no
\* read is in flight or issued, and no later frame is processed or delivered:
\* the `done` is the last event handed to subscriber.next.
C3_NothingAfterDone ==
  DoneDelivered =>
    /\ spc = "ended"
    /\ closed
    /\ ~unsubOnDone => terminal = "complete"
    /\ delivered[Len(delivered)].type = "done"
    /\ Cardinality({i \in 1..Len(delivered) : delivered[i].type = "done"}) = 1
    /\ nextCalls = Len(delivered)

\* C3 witness: log, done, log arrive in reads that cut no frame, the third
\* frame was read with the `done` and is never processed.
C3_Witness ==
  /\ frames = <<"log", "done", "log">>
  /\ rest = <<>>
  /\ delivered = <<[type |-> "log", id |-> 1], [type |-> "done", id |-> 2]>>
  /\ nextCalls = 2
  /\ spc = "ended"

\* C4 as claimed: after the cancel nothing is emitted because the flag is
\* checked before each emission, so subscriber.next is not called any more.
C4_NoEmissionAfterCancel ==
  [][cancelled => (delivered' = delivered /\ nextCalls' = nextCalls)]_vars

\* C4 as amended: after the cancel the observer receives nothing more and no
\* new read is started; the flag is checked at the top of the loop only.
C4_NothingDeliveredAfterCancel ==
  [][cancelled => (/\ delivered' = delivered
                   /\ terminal' = terminal
                   /\ spc' # "read")]_vars

\* C4 witness: the read in flight at the cancel returned a decodable frame,
\* which was passed to subscriber.next and dropped there.
C4_Witness ==
  /\ unsubscribed
  /\ spc = "ended"
  /\ nextCalls > Len(delivered)
  /\ terminal = "none"

\* C5: a frame whose payload is not JSON yields no event and no terminal
\* error, and the frames with a JSON payload before and after it are each
\* delivered once, in order.
C5_MalformedFrameSkipped ==
  (RanToEnd /\ \E i \in 1..Len(frames) : frames[i] = "bad")
    => (delivered = Expected(frames) /\ terminal # "error")

\* ------------------------------------------------ runs of the terminal
\* The services and the page as constructed, with no event stream open.
Init == TInit /\ SInit /\ PInit /\ CInit

WsUrl == [given |-> TRUE, url |-> <<"ws://", "host">>]
HttpUrl == [given |-> TRUE, url |-> <<SP, "HTTPS://", "host", "/", SP>>]
BadUrl == [given |-> TRUE, url |-> <<"ftp://", "host">>]
NoUrl == [given |-> FALSE, url |-> <<>>]

\* What the user may type: two commands, blanks around one of them, a blank
\* line, and the two spellings of clear.
RawCommands ==
  {<<"l", "s">>, <<SP, "p", "w", "d", SP>>, <<SP>>, <<"c", "l", "s">>,
   <<"c", "l", "e", "a", "r">>}

\* One-shot commands: the outcomes of a request.
Data(stdout, stderr, timedOut) ==
  [kind |-> "data",
   data |-> [hasStdout |-> TRUE, stdout |-> stdout,
             hasStderr |-> TRUE, stderr |-> stderr, timedOut |-> timedOut]]

\* A decoded body without the stdout, stderr and timed_out fields, such as
\* the {"detail": ...} body of an error response.
NoFields ==
  [kind |-> "data",
   data |-> [hasStdout |-> FALSE, stdout |-> <<>>,
             hasStderr |-> FALSE, stderr |-> <<>>, timedOut |-> FALSE]]

Failures ==
  {[kind |-> "reject", message |-> <<"Failed to fetch">>],
   [kind |-> "reject", message |-> <<>>],
   [kind |-> "badjson", message |-> <<"Unexpected token <">>],
   [kind |-> "null"]}

\* The stdout and stderr texts: empty, a lone terminator, one line with and
\* without its terminator, a line after an empty one, and two lines with an
\* empty line between them or a terminator after them.
ResponseTexts ==
  {<<>>, <<LF>>, <<"a">>, <<"a", LF>>, <<LF, "a">>,
   <<"a", LF, LF, "a", "a">>, <<"a", "a", LF, "a", LF>>}

Outcomes ==
  Failures \cup {NoFields}
    \cup {Data(o, e, t) : o \in ResponseTexts, e \in ResponseTexts,
                          t \in BOOLEAN}

\* The interactive connection: inbound chunks of every shape.
Chunks == TextsUpTo({"a", "b", LF}, MaxChunk)

\* One connection is opened, receives, and is closed by the server.
LineNext ==
  \/ Connect(WsUrl)
  \/ WsOpen(1)
  \/ \E chunk \in Chunks : WsMessage(1, chunk)
  \/ WsClose(1)
  \/ Clear

LineSpec == Init /\ [][LineNext]_vars

\* The command history: commands are executed and the history is walked in
\* both directions.
HistoryNext ==
  \/ \E raw \in RawCommands : ExecuteCommand(raw)
  \/ \E direction \in {"prev", "next"} : GetHistory(direction)
  \/ Connect(HttpUrl)
  \/ \E i \in 1..MaxRequests : FetchSettle(i, NoFields)
  \/ Clear

HistorySpec == Init /\ [][HistoryNext]_vars

RunNext ==
  \/ Connect(HttpUrl)
  \/ ExecuteCommand(<<"l", "s">>)
  \/ \E i \in 1..MaxRequests, outcome \in Outcomes : FetchSettle(i, outcome)
  \/ Clear

RunSpec == Init /\ [][RunNext]_vars

\* The connections: the user connects to an interactive or a one-shot
\* address and disconnects, while the sockets created so far open, fail and
\* close.
ConnNext ==
  \/ \E arg \in {WsUrl, HttpUrl} : Connect(arg)
  \/ \E s \in Sockets : WsOpen(s)
  \/ \E s \in Sockets : WsError(s)
  \/ \E s \in Sockets : WsClose(s)
  \/ Disconnect
  \/ Clear

ConnSpec == Init /\ [][ConnNext]_vars

\* Two one-shot commands in flight at once: the server answers each command
\* with one line of stdout that names it, and the responses arrive in either
\* order.
ResponseTo(cmd) == Data(<<"out ">> \o cmd \o <<LF>>, <<>>, FALSE)

OrderNext ==
  \/ Connect(HttpUrl)
  \/ \E raw \in {<<"l", "s">>, <<"p", "w", "d">>} : ExecuteCommand(raw)
  \/ \E i \in 1..Len(inflight) :
       FetchSettle(i, ResponseTo(inflight[i].command))
  \/ Clear

OrderSpec == Init /\ [][OrderNext]_vars

\* Commands in every connection state: the user connects to addresses of
\* every kind, disconnects, and runs a command, a blank line or nothing.
ConnCommands == {<<"l", "s">>, <<SP>>, <<>>}

CommandNext ==
  \/ \E arg \in {WsUrl, HttpUrl, BadUrl} : Connect(arg)
  \/ WsOpen(1)
  \/ WsClose(1)
  \/ Disconnect
  \/ \E raw \in ConnCommands : ExecuteCommand(raw)
  \/ \E i \in 1..MaxRequests : FetchSettle(i, NoFields)
  \/ Clear

CommandSpec == Init /\ [][CommandNext]_vars

\* A reconnect: a first connection and the one that follows it, with a
\* command executed, a line received and an error signalled on the first.
ReconnectSockets == {1, 2}

ReconnectNext ==
  \/ Connect(WsUrl)
  \/ \E s \in ReconnectSockets : WsOpen(s)
  \/ \E s \in ReconnectSockets : WsClose(s)
  \/ WsError(1)
  \/ WsMessage(1, <<"a", "b", LF>>)
  \/ Disconnect
  \/ ExecuteCommand(<<"l", "s">>)
  \/ Clear

ReconnectSpec == Init /\ [][ReconnectNext]_vars

\* An error on a connection in use: a command was sent on it and text has
\* arrived that no line terminator has closed yet.
ErrorNext ==
  \/ Connect(WsUrl)
  \/ WsOpen(1)
  \/ WsMessage(1, <<"a">>)
  \/ WsError(1)
  \/ WsClose(1)
  \/ Disconnect
  \/ ExecuteCommand(<<"l", "s">>)
  \/ Clear

ErrorSpec == Init /\ [][ErrorNext]_vars

\* Text arriving on every connection that is open.
SharedNext ==
  \/ Connect(WsUrl)
  \/ \E s \in Sockets : WsOpen(s)
  \/ \E s \in Sockets, chunk \in {<<"a">>, <<"b", LF>>} : WsMessage(s, chunk)
  \/ \E s \in Sockets : WsClose(s)
  \/ Disconnect
  \/ Clear

SharedSpec == Init /\ [][SharedNext]_vars

\* The start form of the agent page.
PageSpec == Init /\ [][PageNext]_vars

\* A conversation on the agent page: a session is started from the start
\* form, which is shown before a session exists and is submitted once at a
\* time; follow-up messages are sent from the chat box; the stream the page
\* has subscribed to delivers its events, errors among them.
StartForm ==
  /\ sessionId = 0
  /\ ~starting
  /\ StartSession

ChatBodies == {<<"error", "log", "done">>, <<"done", "log">>}

ChatNext ==
  \/ SetPrompt(<<"x">>)
  \/ StartForm
  \/ \E i \in 1..MaxInflight, reply \in {<<>>, <<"ok">>}, fs \in ChatBodies :
       CreateSessionResolve(i, 1, reply, fs)
  \/ \E i \in 1..MaxInflight : CreateSessionReject(i, <<"HTTP 500">>)
  \/ \E raw \in {<<"y">>, <<SP>>} : SendMessage(raw)
  \/ \E i \in 1..MaxInflight, streaming \in BOOLEAN, fs \in ChatBodies :
       SendMessageResolve(i, streaming, <<"ok">>, fs)
  \/ \E i \in 1..MaxInflight : SendMessageReject(i, <<>>)
  \/ \E result \in {"ok", "notok", "reject"} : PageFetchResume(result)
  \/ \E k \in {3, 7, 14} : PageReadValue(k)
  \/ PageReadDone
  \/ PageReadError
  \/ NgOnDestroy

ChatSpec == Init /\ [][ChatNext]_vars

\* Follow-up messages on a session that was created with an immediate reply,
\* so that every stream is one a follow-up opened.
FollowNext ==
  \/ SetPrompt(<<"x">>)
  \/ StartForm
  \/ \E i \in 1..MaxInflight :
       CreateSessionResolve(i, 1, <<"ok">>, <<"log", "done">>)
  \/ \E raw \in {<<"y">>, <<SP>>} : SendMessage(raw)
  \/ \E i \in 1..MaxInflight, streaming \in BOOLEAN,
        fs \in {<<"log", "done">>, <<"log">>} :
       FollowUpResolve(i, streaming, <<"ok">>, fs)
  \/ \E result \in {"ok", "notok"} : PageFetchResume(result)
  \/ \E k \in {3, 7, 14} : PageReadValue(k)
  \/ PageReadDone
  \/ PageReadError

FollowSpec == Init /\ [][FollowNext]_vars

\* One session whose stream carries a log line and then ends, with or
\* without a `done` event.
EndNext ==
  \/ SetPrompt(<<"x">>)
  \/ StartForm
  \/ \E i \in 1..MaxInflight, fs \in {<<"log">>, <<"log", "done">>} :
       CreateSessionResolve(i, 1, <<>>, fs)
  \/ \E i \in 1..MaxInflight : CreateSessionReject(i, <<"HTTP 500">>)
  \/ \E result \in {"ok", "notok", "nobody", "reject"} :
       PageFetchResume(result)
  \/ \E k \in 1..(7 * MaxFrames) : PageReadValue(k)
  \/ PageReadDone
  \/ PageReadError
  \/ NgOnDestroy

EndSpec == Init /\ [][EndNext]_vars

\* The creation page: submissions, the timer and status checks.
CreateNext ==
  \/ \E valid \in BOOLEAN : Submit(valid)
  \/ \E res \in {[kind |-> "result"], [kind |-> "none"]} :
       CreateAppResolve(res)
  \/ \E id \in 1..2 : CreateAppResolve([kind |-> "job", id |-> id])
  \/ CreateAppReject
  \/ Tick
  \/ \E i \in 1..MaxChecks, st \in {"running", "done", "failed"} :
       CheckResolve(i, st)
  \/ \E i \in 1..MaxChecks : CheckReject(i)
  \/ Reset

CreateSpec == Init /\ [][CreateNext]_vars

\* One subscription to the event stream of a session.
StreamSpec == Init /\ [][StreamNext]_vars

\* A subscription to a stream whose body holds frames that lack a line, or
\* that ends before its last frame is closed.
FrameBodies ==
  {<<"log", "done">>, <<"eventonly", "dataonly">>,
   <<"dataonly", "eventonly", "log">>, <<"log", "open">>, <<"log", "half">>,
   <<"log", "cut">>, <<"eventonly", "open">>}

FrameNext ==
  \/ \E fs \in FrameBodies, unsub \in BOOLEAN : Subscribe(fs, unsub)
  \/ \E result \in {"ok", "notok", "nobody", "reject"} : FetchResume(result)
  \/ \E k \in 1..(7 * MaxFrames) : ReadValue(k)
  \/ ReadDone
  \/ ReadError
  \/ Unsubscribe

FrameSpec == Init /\ [][FrameNext]_vars

\* ------------------------------------------------ properties of the terminal
NonEmpty(t) == t # <<>>
OutputLine(t) == Line("output", t)
ErrorLine(t) == Line("error", t)
AsLines(type, texts) == [i \in 1..Len(texts) |-> Line(type, texts[i])]

\* C1 as claimed: with the text received on the connection split into the
\* lines L1..Ln and the remainder R, the lines appended are exactly L1..Ln,
\* in order and once each, and R is in the partial-line buffer.
C1_EveryLineFlushed ==
  /\ flushed = AsLines("output", Front(Split(inbound)))
  /\ outputBuffer = Last(Split(inbound))

\* C1 as amended: the lines appended are exactly the non-empty lines among
\* L1..Ln, in order and once each, and R is in the partial-line buffer.
C1_NonEmptyLinesFlushed ==
  /\ flushed = AsLines("output", SelectSeq(Front(Split(inbound)), NonEmpty))
  /\ outputBuffer = Last(Split(inbound))

\* C1 witness: a line, an empty line and an unterminated remainder arrived.
C1_Witness ==
  /\ last.op = "onmessage"
  /\ inbound = <<"a", "b", LF, LF, "b">>
  /\ sock[1] = "OPEN"
  /\ flushed = <<OutputLine(<<"a", "b">>)>>
  /\ outputBuffer = <<"b">>

\* The walk recorded in navLog: its leading run of prev calls.
PrevRun ==
  Cardinality({k \in 1..Len(navLog) : navLog[k].dir = "prev"})

\* C6, the prev half: after N >= 1 commands the k-th successive prev returns
\* the k-th newest command for k <= N and "" from the (N+1)-th on.
PrevWalk ==
  \A k \in 1..PrevRun :
    navLog[k].ret = IF k <= Len(commandHistory)
                    THEN commandHistory[Len(commandHistory) + 1 - k]
                    ELSE <<>>

\* C6 as claimed: after at least N+1 prev calls, the N-th next returns "".
C6_NextBackAfterN ==
  (Len(commandHistory) >= 1 /\ navLog # Mixed) =>
    /\ PrevWalk
    /\ (PrevRun > Len(commandHistory)
          /\ Len(navLog) >= PrevRun + Len(commandHistory))
       => navLog[PrevRun + Len(commandHistory)].ret = <<>>

\* C6 as amended: after at least N+1 prev calls, the j-th next returns the
\* j-th oldest command for j <= N and "" from the (N+1)-th on.
C6_NextBackAfterNPlus1 ==
  (Len(commandHistory) >= 1 /\ navLog # Mixed) =>
    /\ PrevWalk
    /\ PrevRun > Len(commandHistory) =>
         \A j \in 1..(Len(navLog) - PrevRun) :
           navLog[PrevRun + j].ret = IF j <= Len(commandHistory)
                                     THEN commandHistory[j] ELSE <<>>

\* C6 witness: three commands, four prev calls and then four next calls.
C6_Witness ==
  /\ commandHistory = <<<<"l", "s">>, <<"p", "w", "d">>, <<"l", "s">>>>
  /\ navLog # Mixed
  /\ Len(navLog) = 8
  /\ PrevRun = 4
  /\ navLog[8].ret = <<>>
  /\ navLog[7].ret = <<"l", "s">>

\* C7: the cursor is in [-1, length]; prev at -1 and next at length leave it
\* there and return ""; null is returned exactly when no command is stored,
\* and then the cursor is unchanged.
C7_CursorInRange ==
  /\ historyIndex \in -1..Len(commandHistory)
  /\ last.op = "getHistory" =>
       /\ last.null <=> commandHistory = <<>>
       /\ last.null => historyIndex = last.from
       /\ (last.dir = "prev" /\ last.from = -1) =>
            (historyIndex = -1 /\ last.ret = <<>>)
       /\ (last.dir = "next" /\ last.from = Len(commandHistory)) =>
            (historyIndex = Len(commandHistory) /\ last.ret = <<>>)

\* C7 witness: prev at the lower sentinel with two commands stored.
C7_Witness ==
  /\ last.op = "getHistory"
  /\ last.dir = "prev"
  /\ last.from = -1
  /\ ~last.null
  /\ Len(commandHistory) = 2

\* The lines a response stands for: the non-empty lines of stdout as Output,
\* then those of stderr as Error, then one Error line if it timed out.
ResponseLines(data) ==
  AsLines("output", SelectSeq(Split(data.stdout), NonEmpty))
    \o AsLines("error", SelectSeq(Split(data.stderr), NonEmpty))
    \o (IF data.timedOut THEN <<ErrorLine(<<"Command timed out.">>)>>
        ELSE <<>>)

Settled(kinds) == last.op = "settle" /\ last.outcome.kind \in kinds

\* C8: a response with stdout, stderr and timed_out appends exactly the lines
\* it stands for, after the lines already in the log.
C8_OneShotSplitting ==
  (Settled({"data"}) /\ last.outcome.data.hasStdout
                     /\ last.outcome.data.hasStderr) =>
    /\ last.delta.kept
    /\ last.delta.appended = ResponseLines(last.outcome.data)

\* C8 witness: stdout and stderr with empty fragments, and a timeout.
C8_Witness ==
  /\ Settled({"data"})
  /\ last.outcome.data.stdout = <<"a", LF>>
  /\ last.outcome.data.stderr = <<LF, "a">>
  /\ last.outcome.data.timedOut
  /\ Len(last.delta.appended) = 3

\* C9: a request that gets no response appends exactly one Error line, which
\* carries a diagnostic; executeCommand had returned with the request in
\* flight and the command echoed.
C9_NetworkFailureOneLine ==
  /\ Settled({"reject"}) =>
       /\ last.delta.kept
       /\ Len(last.delta.appended) = 1
       /\ last.delta.appended[1].type = "error"
       /\ Len(last.delta.appended[1].text) = 3
       /\ last.delta.appended[1].text[1] = "Request failed: "
       /\ last.delta.appended[1].text[2]
            \in {"Network error", "Failed to fetch"}
  /\ (last.op = "executeCommand" /\ connected /\ isRemoteApi
        /\ Trim(last.raw) = <<"l", "s">>) =>
       /\ inflight # <<>>
       /\ inflight[Len(inflight)].command = <<"l", "s">>

\* C9 witness: fetch rejected with an error that has no message.
C9_Witness ==
  /\ Settled({"reject"})
  /\ last.outcome.message = <<>>
  /\ Len(last.delta.appended) = 1

\* C10: a request that does not succeed (no response, a body that is not
\* JSON, or an error body without stdout and stderr) appends at least one
\* line.
C10_NoSilentFailure ==
  (\/ Settled({"reject", "badjson", "null"})
   \/ Settled({"data"}) /\ ~last.outcome.data.hasStdout
                        /\ ~last.outcome.data.hasStderr) =>
    Len(last.delta.appended) >= 1

\* An executeCommand step on a trimmed text that is neither empty nor clear.
RanCommand(cmd) ==
  /\ last'.op = "executeCommand"
  /\ Trim(last'.raw) = cmd

NotConnectedNotice ==
  OutputLine(<<"Not connected. Enter server URL and tap Connect.">>)

\* A connection attempt is in progress: the current socket has not opened.
StillConnecting == ~isRemoteApi /\ ws # 0 /\ sock[ws] = "CONNECTING"

\* C11: a command executed while the client is Disconnected or still
\* Connecting transmits nothing on any transport and appends the `not
\* connected` notice and no other line, so no Command line.
C11_NotConnectedNoOp ==
  [][(RanCommand(<<"l", "s">>) /\ (~connected \/ StillConnecting)) =>
       /\ output' = Append(output, NotConnectedNotice)
       /\ sent' = sent
       /\ inflight' = inflight]_vars

\* C12: a command executed while Connected on the Interactive transport
\* appends one Command line and transmits the command followed by one line
\* terminator on the current connection, once; a command that was echoed is
\* never left unsent.
C12_EchoedCommandSent ==
  [][(RanCommand(<<"l", "s">>) /\ connected /\ ~isRemoteApi) =>
       /\ output' = Append(output, Line("command", <<"l", "s">>))
       /\ ws # 0
       /\ sent' = [sent EXCEPT ![ws] = Append(@, <<"l", "s", LF>>)]
       /\ inflight' = inflight]_vars

\* C13: after disconnect() the client stays Disconnected until the next
\* connect(): no signal of an earlier connection attempt makes it Connected.
C13_StaysDisconnected == intent = "disconnected" => ~connected

\* The sockets that are connecting or open.
Live == {s \in Sockets : sock[s] \in {"CONNECTING", "OPEN"}}

\* A close or error signal of socket s is delivered in this step.
Signalled(s) ==
  /\ last'.op \in {"onclose", "onerror"}
  /\ last'.socket = s

\* C14: once the client has closed a connection (disconnect() or a switch to
\* the One-Shot transport), a later close or error signal of that connection
\* changes neither the connection state, nor the current connection, nor the
\* log.
C14_LateSignalNoOp ==
  [][\A s \in Sockets :
       (sock[s] = "CLOSING" /\ Signalled(s)) =>
         UNCHANGED <<connected, ws, output>>]_vars

\* C15: at most one connection is connecting or open, and it is the current
\* one: every other connection that was created has been closed.
C15_SingleOwnership ==
  /\ Cardinality(Live) <= 1
  /\ \A s \in Live : ws = s

\* The lines completed by a terminator in the text received on socket s.
TerminatedLines(s) ==
  LET lines == Front(Split(received[s]))
  IN  {lines[j] : j \in 1..Len(lines)}

\* C16: text not yet closed by a line terminator is never appended to the
\* log, alone or joined to the text of another connection: every line
\* appended is a terminated line of the text of one connection, and the
\* partial-line buffer is empty when a connection becomes Connected.
C16_PartialLineNeverEmitted ==
  /\ \A i \in 1..Len(flushed) :
       \E s \in Sockets : flushed[i].text \in TerminatedLines(s)
  /\ last.op = "onopen" => outputBuffer = <<>>

\* C17: connect(), disconnect(), the open, close and error signals, inbound
\* output and clear() leave the stored commands and the cursor unchanged.
C17_HistoryPersists ==
  [][last'.op \in {"connect", "disconnect", "onopen", "onclose", "onerror",
                   "onmessage", "clear"}
       => UNCHANGED <<commandHistory, historyIndex>>]_vars

\* C17 witness: a command was sent on the first connection, the user
\* disconnected and connected again, the second connection has opened, and
\* getHistory would return the command.
C17_Witness ==
  /\ last.op = "onopen"
  /\ ws = 2
  /\ sock[2] = "OPEN"
  /\ sent[1] = <<<<"l", "s", LF>>>>
  /\ sent[2] = <<>>
  /\ output = <<OutputLine(<<"Disconnected.">>),
                OutputLine(<<"Connecting to ", "ws://", "host", "...">>),
                OutputLine(<<"Connected. Type commands below.">>)>>
  /\ commandHistory = <<<<"l", "s">>>>
  /\ getHistory(commandHistory, historyIndex, "prev").ret = <<"l", "s">>

\* C18: executeCommand on an empty or whitespace-only text appends no line,
\* transmits nothing and leaves the command history and its cursor unchanged,
\* whatever the connection state.
C18_BlankIgnored ==
  [][RanCommand(<<>>) =>
       UNCHANGED <<output, sent, inflight, commandHistory, historyIndex>>]_vars

\* C18 witness: a blank line was submitted on an open connection with a
\* command in the history.
C18_Witness ==
  /\ last.op = "executeCommand"
  /\ last.raw = <<SP>>
  /\ connected
  /\ ws # 0
  /\ sock[ws] = "OPEN"
  /\ commandHistory # <<>>

\* C19: the transport kind chosen by the last connect() is the one every
\* command uses: a command that is echoed is posted as a one-shot request
\* exactly when the address of the last connect() has an HTTP-family prefix,
\* and goes to no other transport.
C19_TransportOfLastConnect ==
  [][(RanCommand(<<"l", "s">>)
        /\ output' = Append(output, Line("command", <<"l", "s">>))) =>
       /\ intent = "oneshot" =>
            (Len(inflight') = Len(inflight) + 1 /\ sent' = sent)
       /\ intent = "interactive" => inflight' = inflight]_vars

\* C20: startSession with a non-empty message appends the user's message
\* before the session-creation call completes: while the call is awaited the
\* message is already in the conversation log.
C20_UserMessageAtOnce ==
  \A i \in 1..Len(creating) :
    \E k \in 1..Len(messages) : messages[k] = Message("user", creating[i])

\* This step creates a connection, opens socket s, or fails to create one.
Created == \E s \in Sockets : sock[s] = "NONE" /\ sock'[s] = "CONNECTING"
Opened(s) == sock[s] = "CONNECTING" /\ sock'[s] = "OPEN"
CreationFailed ==
  /\ last'.op = "connect"
  /\ ~isHttpUrl(last'.url)
  /\ WebSocketThrows(last'.url)
  /\ ~(ws # 0 /\ sock[ws] = "OPEN")

ErrorLines(lines) ==
  Cardinality({i \in 1..Len(lines) : lines[i].type = "error"})

\* C23: connect() on an Interactive address that creates a connection leaves
\* the client not Connected; the client becomes Connected on that address
\* only by the open acknowledgment of the current connection; the close
\* signal and disconnect() leave it Disconnected; a connection that cannot be
\* created leaves it Disconnected with one Error line appended.
C23_InteractiveStateMachine ==
  [][/\ Created => ~connected'
     /\ (~connected /\ connected' /\ intent' = "interactive") =>
          (ws # 0 /\ Opened(ws))
     /\ last'.op \in {"onclose", "disconnect"} => ~connected'
     /\ CreationFailed =>
          /\ ~connected'
          /\ ErrorLines(Delta(output, output').appended) = 1]_vars

\* C24: the error signal of a connection appends exactly one Error line and
\* leaves the connection state, the current connection, the partial-line
\* buffer, the transport kind and the command history unchanged; the client
\* leaves Connected only by the close signal or by disconnect().
C24_ErrorSignalFrame ==
  [][/\ last'.op = "onerror" =>
          /\ output' = Append(output, ErrorLine(<<"WebSocket error.">>))
          /\ UNCHANGED <<connected, ws, outputBuffer, isRemoteApi,
                         commandHistory, historyIndex>>
     /\ (connected /\ ~connected') =>
          last'.op \in {"onclose", "disconnect"}]_vars

\* C24 witness: the error arrived on the open, current connection with a
\* command in the history and unterminated text in the buffer, and the client
\* is still Connected.
C24_Witness ==
  /\ last.op = "onerror"
  /\ sock[1] = "FAILED"
  /\ ws = 1
  /\ connected
  /\ outputBuffer = <<"a">>
  /\ commandHistory = <<<<"l", "s">>>>
  /\ output[Len(output)] = ErrorLine(<<"WebSocket error.">>)

\* The frames of a body that hold both an event line and a data line and are
\* closed by a blank line.
CompleteKinds == {"log", "done", "error", "bad"}

\* C25: every event emitted stands for a frame that holds an event line and a
\* data line and is closed by a blank line; the fields of an incomplete frame
\* are never joined to the lines of a later frame, and an incomplete frame
\* raises no error.
C25_OnlyCompleteFrames ==
  /\ \A k \in 1..Len(delivered) : frames[delivered[k].id] \in CompleteKinds
  /\ terminal = "error" => ioError

\* The last frame of the body is not closed: the body ends before its blank
\* line, its data line, or the terminator of its data line.
EndsUnclosed ==
  /\ frames # <<>>
  /\ frames[Len(frames)] \in {"open", "half", "cut"}

\* C26: when the body ends before its last frame is closed, no event is
\* emitted for that frame and the subscription completes without a terminal
\* failure.
C26_UnclosedFrameDiscarded ==
  (RanToEnd /\ EndsUnclosed) =>
    /\ \A k \in 1..Len(delivered) : delivered[k].id # Len(frames)
    /\ terminal = "complete"

\* C26 witness: the body ended inside the data line of its second frame, the
\* text of that line is still buffered, and the first frame was delivered.
C26_Witness ==
  /\ RanToEnd
  /\ frames = <<"log", "cut">>
  /\ rest = <<>>
  /\ buffer = <<"data: ", LogJson(2)>>
  /\ delivered = <<[type |-> "log", id |-> 1]>>
  /\ terminal = "complete"

\* C27: a fetch that fails or yields a non-success status or no body, and a
\* read that fails, end the subscription: the subscriber gets one terminal
\* failure and no event with it or after it, and gets nothing at all when it
\* had already cancelled.
C27_ReadFailureTerminal ==
  [][/\ (ioError' /\ ~ioError) =>
          /\ spc' = "ended"
          /\ delivered' = delivered
          /\ nextCalls' = nextCalls
          /\ terminal' = IF cancelled THEN terminal ELSE "error"
     /\ terminal = "error" =>
          (terminal' = "error" /\ delivered' = delivered /\ spc' = "ended")
    ]_vars

\* C27 witness: a read failed after an event had been delivered, and the
\* subscriber was told of the failure.
C27_Witness ==
  /\ ioError
  /\ terminal = "error"
  /\ spc = "ended"
  /\ rest # <<>>
  /\ delivered = <<[type |-> "log", id |-> 1]>>

\* C28: once the subscriber has unsubscribed, no read is started: the fetch
\* or the read in flight is the last step of the function, and the
\* subscriber gets no event, no completion and no failure.
C28_NoReadAfterCancel ==
  [][(unsubscribed /\ svars' # svars) =>
       /\ spc \in {"fetch", "read"}
       /\ spc' = "ended"
       /\ delivered' = delivered
       /\ terminal' = terminal]_vars

\* C28 witness: the subscriber unsubscribed before the response arrived; the
\* function ended with the whole body unread and nothing reported.
C28_Witness ==
  /\ unsubscribed
  /\ spc = "ended"
  /\ ~ioError
  /\ frames = <<"log", "done">>
  /\ rest = EncodeAll(frames)
  /\ delivered = <<>>
  /\ terminal = "none"

\* C22: the conversation log is append-only: every step leaves the log it
\* found as a prefix of the log it leaves.
C22_AppendOnly == [][Delta(messages, messages').kept]_vars

\* The events a step of the stream delivered to the page's observer.
Fresh == Delta(delivered, delivered').appended

\* A step of the stream the page has subscribed to: its fetch settles, or a
\* read returns, ends the body or fails.
StreamStep ==
  /\ spc \in {"fetch", "read"}
  /\ spc' # "fetch"
  /\ spc' # spc \/ rest' # rest

Dones(events) == {k \in 1..Len(events) : events[k].type = "done"}
Errors(events) == {k \in 1..Len(events) : events[k].type = "error"}

Reply(ev) == Message("assistant", <<"reply ", ToString(ev.id)>>)

\* C21: a step of the stream that delivers `done` appends exactly one
\* assistant message, that of the event, clears the loading indicator, gives
\* up the subscription and ends the stream; a stream delivers `done` at most
\* once, and a step that delivers no `done` leaves the conversation log as
\* it is.
C21_OneReplyPerStream ==
  [][StreamStep =>
       /\ Cardinality(Dones(delivered')) <= 1
       /\ Dones(Fresh) # {} =>
            /\ messages' = Append(messages, Reply(Fresh[Len(Fresh)]))
            /\ ~loading'
            /\ ~streamSubscription'
            /\ closed'
            /\ spc' = "ended"
       /\ Dones(Fresh) = {} => messages' = messages]_vars

\* C21 witness: the session's stream sent done, log in one read; the reply is
\* the last message, the log frame left no trace and the stream has ended.
C21_Witness ==
  /\ frames = <<"done", "log">>
  /\ rest = <<>>
  /\ delivered = <<[type |-> "done", id |-> 1]>>
  /\ nextCalls = 1
  /\ spc = "ended"
  /\ messages = <<Message("user", <<"x">>),
                  Message("assistant", <<"reply ", "1">>)>>
  /\ logs = <<>>
  /\ ~loading
  /\ ~streamSubscription

\* This step is startSession resuming after createSession has resolved.
SessionCreated ==
  /\ Len(creating') < Len(creating)
  /\ last'.op = "createSession"
  /\ messages' # messages

\* C29: when createSession returns a reply, startSession appends the user's
\* message and the reply as one assistant message and subscribes to no
\* stream; when it returns none, startSession appends the user's message
\* only and subscribes to the stream of the session, once.
C29_ReplyOrStream ==
  [][SessionCreated =>
       LET user == messages'[Len(messages) + 1]
       IN  /\ user.role = "user"
           /\ IF last'.reply # <<>>
              THEN /\ messages' =
                        messages \o <<user,
                                      Message("assistant", last'.reply)>>
                   /\ UNCHANGED <<svars, streamSubscription, loading>>
              ELSE /\ messages' = Append(messages, user)
                   /\ streamSubscription'
                   /\ loading'
                   /\ spc' = "fetch"
                   /\ delivered' = <<>>
                   /\ ~closed']_vars

\* C29 witness: createSession returned a reply, which is the last message,
\* and no stream was opened.
C29_Witness ==
  /\ last.op = "createSession"
  /\ last.reply = <<"ok">>
  /\ messages = <<Message("user", <<"x">>), Message("assistant", <<"ok">>)>>
  /\ sessionId # 0
  /\ spc = "idle"
  /\ ~streamSubscription
  /\ ~loading

\* The texts the `log` events of a sequence of events append to the build log.
LogTexts(events) ==
  LET sel == SelectSeq(events, LAMBDA ev : ev.type = "log")
  IN  [k \in 1..Len(sel) |-> <<"log ", ToString(sel[k].id)>>]

\* C30: a step of the stream that delivers an `error` event and no `done`
\* sets the error indicator to the error of the event and leaves the
\* conversation log, the loading indicator and the subscription as they are,
\* with the stream still reading; once an `error` event was delivered, the
\* `log` events that follow are appended to the build log and the `done`
\* event appends its reply.
C30_ErrorEventKeepsStream ==
  [][StreamStep =>
       /\ (Errors(Fresh) # {} /\ Dones(Fresh) = {}) =>
            /\ \E k \in Errors(Fresh) :
                 /\ \A j \in Errors(Fresh) : j <= k
                 /\ error' = <<"error ", ToString(Fresh[k].id)>>
            /\ UNCHANGED <<messages, loading, streamSubscription>>
            /\ ~closed'
            /\ spc' = "read"
       /\ Errors(delivered) # {} =>
            /\ logs' = logs \o LogTexts(Fresh)
            /\ Dones(Fresh) # {} =>
                 messages' = Append(messages, Reply(Fresh[Len(Fresh)]))
    ]_vars

\* C30 witness: the stream delivered an `error` event and then a `log`
\* event; the error is shown, the log line is in the build log, and the
\* stream is still being read with the subscription held.
C30_Witness ==
  /\ delivered = <<[type |-> "error", id |-> 1], [type |-> "log", id |-> 2]>>
  /\ error = <<"error ", "1">>
  /\ logs = <<<<"log ", "2">>>>
  /\ spc = "read"
  /\ ~closed
  /\ streamSubscription
  /\ loading
  /\ messages = <<Message("user", <<"x">>)>>

\* C35: while the client is Connected on the One-Shot transport chosen by
\* the last connect(), the close or error signal of an interactive connection
\* the client has closed changes neither the connection state nor the
\* transport kind.
C35_OneShotUndisturbed ==
  [][\A s \in Sockets :
       (intent = "oneshot" /\ connected /\ isRemoteApi
          /\ sock[s] = "CLOSING" /\ Signalled(s)) =>
         UNCHANGED <<connected, isRemoteApi>>]_vars

\* C36: with each command executed once, the lines of the responses are in
\* the log in the order in which their commands were executed, whatever the
\* order in which the responses arrived.
C36_ResponsesInCommandOrder ==
  LET Place(cmd) ==
        CHOOSE k \in 1..Len(commandHistory) : commandHistory[k] = cmd
      ResponseAt(p) ==
        /\ output[p].type = "output"
        /\ Head(output[p].text) = "out "
  IN  (\A k, l \in 1..Len(commandHistory) :
         commandHistory[k] = commandHistory[l] => k = l) =>
        \A p, q \in 1..Len(output) :
          (p < q /\ ResponseAt(p) /\ ResponseAt(q)) =>
            Place(Tail(output[p].text)) <= Place(Tail(output[q].text))

\* C32: when a sendMessage fails, the message removed from the conversation
\* log is the user message that call appended, and the other messages keep
\* their order.
C32_RemovesOwnMessage ==
  [][(Len(sending') < Len(sending) /\ Len(messages') < Len(messages)) =>
       \E i \in 1..Len(sending), k \in 1..Len(messages) :
         /\ sending' = Without(sending, i)
         /\ messages[k] = Message("user", sending[i])
         /\ messages' = Without(messages, k)]_vars

\* C33: startSession opens a stream only when no earlier stream is running,
\* and a running stream is the one the page holds in streamSubscription (the
\* one ngOnDestroy cancels).
C33_OneSubscription ==
  [][/\ (SessionCreated /\ last'.reply = <<>>) =>
          ~(spc \in {"fetch", "read"} /\ ~closed)
     /\ (spc' \in {"fetch", "read"} /\ ~closed') =>
          streamSubscription']_vars

\* C34: once the stream the page subscribed to has terminated (by `done`, by
\* a failure, or by the end of the body) and no request of the page is
\* pending, the page is not loading and holds no subscription.
C34_LoadingClearedAtEnd ==
  (spc = "ended" /\ ~unsubscribed /\ sending = <<>>) =>
    (~loading /\ ~streamSubscription)

\* C31: sendMessage appends the user's message; when the response is not
\* streaming the reply is appended as one assistant message and no stream is
\* opened; when it is streaming nothing is appended and one stream is
\* opened, whose `log` events go to the build log and whose `done` appends
\* the assistant message.
C31_FollowUp ==
  [][LET FollowUp ==
           /\ Len(sending') < Len(sending)
           /\ last'.op = "sendMessage"
     IN
     /\ Len(sending') > Len(sending) =>
          messages' = Append(messages,
                             Message("user", sending'[Len(sending')]))
     /\ (FollowUp /\ ~last'.streaming) =>
          /\ messages' = Append(messages, Message("assistant", last'.reply))
          /\ UNCHANGED <<svars, streamSubscription>>
     /\ (FollowUp /\ last'.streaming) =>
          /\ messages' = messages
          /\ streamSubscription'
          /\ spc' = "fetch"
          /\ ~closed'
          /\ delivered' = <<>>
          /\ nextCalls' = 0
     /\ StreamStep =>
          /\ logs' = logs \o LogTexts(Fresh)
          /\ Dones(Fresh) # {} =>
               messages' = Append(messages, Reply(Fresh[Len(Fresh)]))
          /\ Dones(Fresh) = {} => messages' = messages]_vars

\* C31 witness: the follow-up 'y' was answered with streaming, and the
\* stream delivered its log line and its `done`.
C31_Witness ==
  /\ last.op = "sendMessage"
  /\ last.streaming
  /\ spc = "ended"
  /\ sending = <<>>
  /\ logs = <<<<"log ", "1">>>>
  /\ messages = <<Message("user", <<"x">>),
                  Message("assistant", <<"ok">>),
                  Message("user", <<"y">>),
                  Message("assistant", <<"reply ", "2">>)>>

\* C37: reset() leaves the job status null and no timer set; while no
\* submit() was called since, a status check that completes changes neither.
C37_ResetDiscardsChecks ==
  [][/\ (sinceReset' /\ ~sinceReset) =>
          (status' = "null" /\ ~pollInterval')
     /\ (sinceReset /\ Len(checks') < Len(checks)) =>
          (status' = "null" /\ ~pollInterval')]_vars
=============================================================================
